---- MODULE Spec2Model ----
(***************************************************************************)
(* Model of the physics orbit game: physics.py (Body, SpaceShip, gravity,  *)
(* collision), levels.py (level factory) and the frame loop of main.py.    *)
(*                                                                         *)
(* Numbers.  The program computes in float64.  The model computes in       *)
(* fixed point:                                                            *)
(*   position, radius : units of 1/PosScale px                             *)
(*   acceleration     : units of 1/AccScale px/s^2                         *)
(*   velocity         : units of 1/VelScale px/s                           *)
(*   fuel             : units of 1/FuelScale                               *)
(*   time (dt)        : quarter seconds (dt_ms = 250 * dt)                 *)
(*   angle            : quarter turns (pi/2), where cos and sin are exact  *)
(* A quotient that is not a whole number of units is truncated toward 0.   *)
(***************************************************************************)
EXTENDS Integers, Sequences, FiniteSets, TLC

VARIABLES
    bodies,       \* main: the list `bodies` (sequence of Body records)
    ship,         \* main: `ship` (SpaceShip record)
    target,       \* main: `target` (Body record)
    next_oid,     \* identity of the next object allocated
    running,      \* main: `running`
    game_over,    \* main: `game_over`
    success,      \* main: `success`
    elapsed,      \* main: `elapsed`, in quarter seconds
    level_index,  \* main: `level_index`
    score_total,  \* main: `score_total`
    held,         \* keyboard state: the set of control keys currently down
    pc,           \* position in the frame loop
    frame,        \* number of frames started
    nev,          \* number of events delivered so far
    dt,           \* main: `dt` of the current frame, in quarter seconds
    pre,          \* all_objects as they were when the physics step began
    raised,       \* an exception escaped (ZeroDivisionError)
    hist,         \* per object, every position Body.update ever produced
    ret           \* result of the last pure call (check_collision)

vars == <<bodies, ship, target, next_oid, running, game_over, success, elapsed,
          level_index, score_total, held, pc, frame, nev, dt, pre, raised,
          hist, ret>>

----------------------------------------------------------------------------
(* Fixed-point scales and program constants *)

PosScale == 4
AccScale == 64
VelScale == 256
FuelScale == 256
TicksPerSecond == 4

GNum == 2
GDen == 5
EpsNum == 1
EpsDen == 1000000
TrailCap == 500
SpeedThreshold == 50
NumLevels == 2

Abs(n) == IF n < 0 THEN -n ELSE n

Max(a, b) == IF a >= b THEN a ELSE b

Min(a, b) == IF a <= b THEN a ELSE b

\* float division a / b (b > 0) to a whole number of units, truncated toward 0
Div(a, b) == IF a >= 0 THEN a \div b ELSE -((-a) \div b)

RECURSIVE IsqrtIter(_, _, _)
IsqrtIter(n, lo, hi) ==
    IF lo >= hi THEN lo
    ELSE LET mid == (lo + hi + 1) \div 2
         IN IF mid * mid <= n THEN IsqrtIter(n, mid, hi)
            ELSE IsqrtIter(n, lo, mid - 1)

\* math.sqrt on fixed-point units: the largest r with r * r <= n
Isqrt(n) == IsqrtIter(n, 0, Min(n, 46340))

\* math.cos / math.sin of an angle given in quarter turns
Cos(a) == CASE a % 4 = 0 -> 1 [] a % 4 = 1 -> 0 [] a % 4 = 2 -> -1 [] OTHER -> 0

Sin(a) == CASE a % 4 = 0 -> 0 [] a % 4 = 1 -> 1 [] a % 4 = 2 -> 0 [] OTHER -> -1

----------------------------------------------------------------------------
(* physics.py: Body *)

Body(oid, x, y, mass, radius, vx, vy) ==
    [oid |-> oid, x |-> x * PosScale, y |-> y * PosScale, mass |-> mass,
     radius |-> radius * PosScale, vx |-> vx * VelScale, vy |-> vy * VelScale,
     trail |-> <<>>, ax |-> 0, ay |-> 0]

\* a solve without the guard against coincident centres
NeverDegenerate(dist_sq) == FALSE

\* dist_sq <= 1e-6, with dist_sq in squared position units
Degenerate(dist_sq) == dist_sq <= (EpsNum * PosScale * PosScale) \div EpsDen

\* the largest coordinate difference whose square fits the integer range
\* twice over; a pull from further away is below one acceleration unit
FarLimit == 32767

\* One pass of the loop body of compute_gravitational_acceleration for
\* `other`: the pair's contribution, or skip, or the ZeroDivisionError of
\* 1.0 / math.sqrt(0.0).  The quotient G * m * dx / r^3 is taken in three
\* steps so that every intermediate value stays in range.
Pull(self, other) ==
    LET dx == other.x - self.x
        dy == other.y - self.y
        far == Abs(dx) > FarLimit \/ Abs(dy) > FarLimit
        dist_sq == IF far THEN FarLimit * FarLimit ELSE dx * dx + dy * dy
        r == Isqrt(dist_sq)
        \* G * other.mass in acceleration units at one position unit
        gm == Div(GNum * other.mass * PosScale * PosScale * AccScale, GDen)
    IN  IF other.oid = self.oid THEN [ax |-> 0, ay |-> 0, err |-> FALSE]
        ELSE IF Degenerate(dist_sq) THEN [ax |-> 0, ay |-> 0, err |-> FALSE]
        ELSE IF dist_sq = 0 THEN [ax |-> 0, ay |-> 0, err |-> TRUE]
        ELSE IF far THEN [ax |-> 0, ay |-> 0, err |-> FALSE]
        ELSE [ax |-> Div(Div(Div(gm, r) * dx, r), r),
              ay |-> Div(Div(Div(gm, r) * dy, r), r),
              err |-> FALSE]

RECURSIVE GravLoop(_, _, _, _)
GravLoop(self, objs, k, acc) ==
    IF k > Len(objs) \/ acc.err THEN acc
    ELSE LET p == Pull(self, objs[k])
         IN GravLoop(self, objs, k + 1,
                     [ax |-> acc.ax + p.ax, ay |-> acc.ay + p.ay, err |-> p.err])

\* totals that start from the previous frame's acceleration
GravTotalsAccumulating(self, objs) ==
    GravLoop(self, objs, 1, [ax |-> self.ax, ay |-> self.ay, err |-> FALSE])

\* Body.compute_gravitational_acceleration: the totals start at 0.0 and
\* replace self.ax, self.ay
GravTotals(self, objs) == GravLoop(self, objs, 1, [ax |-> 0, ay |-> 0, err |-> FALSE])

\* lines 94-95: self.ax = ax_total; self.ay = ay_total
StoreAcc(self, t) == [self EXCEPT !.ax = t.ax, !.ay = t.ay]

compute_gravitational_acceleration(self, objs) ==
    LET t == GravTotals(self, objs)
    IN IF t.err THEN self ELSE StoreAcc(self, t)

\* an eviction that drops the newest sample instead of the oldest
TrailPushDropNewest(trail, p) ==
    LET t == Append(trail, p)
    IN IF Len(t) > TrailCap THEN SubSeq(t, 1, Len(t) - 1) ELSE t

\* the eviction of Body.update: append, then pop(0) when longer than the cap
TrailPush(trail, p) ==
    LET t == Append(trail, p)
    IN IF Len(t) > TrailCap THEN Tail(t) ELSE t

\* Body.update(dt)
BodyUpdate(self, d) ==
    LET vx1 == self.vx + self.ax * d
        vy1 == self.vy + self.ay * d
        x1 == self.x + Div(vx1 * d, (VelScale * TicksPerSecond) \div PosScale)
        y1 == self.y + Div(vy1 * d, (VelScale * TicksPerSecond) \div PosScale)
    IN [self EXCEPT !.vx = vx1, !.vy = vy1, !.x = x1, !.y = y1,
                    !.trail = TrailPush(self.trail, <<x1, y1>>)]

----------------------------------------------------------------------------
(* physics.py: SpaceShip *)

SpaceShip(oid, x, y, mass, radius, vx, vy, thrust_power, fuel) ==
    [oid |-> oid, x |-> x * PosScale, y |-> y * PosScale, mass |-> mass,
     radius |-> radius * PosScale, vx |-> vx * VelScale, vy |-> vy * VelScale,
     trail |-> <<>>, ax |-> 0, ay |-> 0,
     angle |-> -1, thrust_power |-> thrust_power, fuel |-> fuel * FuelScale,
     thrusting_forward |-> FALSE, thrusting_backward |-> FALSE,
     strafe_left |-> FALSE, strafe_right |-> FALSE,
     strafe_up |-> FALSE, strafe_down |-> FALSE]

\* a rotation that burns fuel like a thruster
rotate_burning(self, direction, d) ==
    [self EXCEPT !.angle = self.angle + direction * d,
                 !.fuel = IF self.fuel - Abs(direction) * d * FuelScale > 0
                          THEN self.fuel - Abs(direction) * d * FuelScale ELSE 0]

\* SpaceShip.rotate: 2 pi radians per second is TicksPerSecond quarter turns
\* per TicksPerSecond ticks
rotate(self, direction, d) == [self EXCEPT !.angle = self.angle + direction * d]

\* a thrust direction that adds the two flags instead of cancelling them
ThrustDirAdded(self) ==
    (IF self.thrusting_forward THEN 1 ELSE 0)
    + (IF self.thrusting_backward THEN 1 ELSE 0)

ThrustDir(self) ==
    (IF self.thrusting_forward THEN 1 ELSE 0)
    - (IF self.thrusting_backward THEN 1 ELSE 0)

\* a burn without the floor at zero
FuelAfterUnclamped(fuel, burn) == fuel - burn

\* fuel after burning `burn`: max(0.0, fuel - burn)
FuelAfter(fuel, burn) == Max(0, fuel - burn)

\* the thrust acceleration of lines 180-187
Burn(self, d) ==
    LET accel == Div(self.thrust_power * AccScale, self.mass) * ThrustDir(self)
        ax_thruster == accel * Cos(self.angle)
        ay_thruster == accel * Sin(self.angle)
    IN [self EXCEPT !.vx = self.vx + ax_thruster * d,
                    !.vy = self.vy + ay_thruster * d,
                    !.fuel = FuelAfter(self.fuel, Abs(accel) * d)]

\* an apply_thruster that does not look at the fuel first
apply_thruster_unchecked(self, d) ==
    IF ThrustDir(self) = 0 THEN self ELSE Burn(self, d)

\* SpaceShip.apply_thruster(dt)
apply_thruster(self, d) ==
    IF self.fuel <= 0 THEN self
    ELSE IF ThrustDir(self) = 0 THEN self
    ELSE Burn(self, d)

\* SpaceShip.update(dt)
ShipUpdate(self, d) == BodyUpdate(apply_thruster(self, d), d)

----------------------------------------------------------------------------
(* physics.py: distance and check_collision *)

\* math.hypot(dx, dy) <= limit, decided on the squares (both sides are
\* non-negative once limit >= 0; a side longer than the limit decides it
\* before squaring)
HypotLeq(dx, dy, limit) ==
    /\ limit >= 0
    /\ Abs(dx) <= limit
    /\ Abs(dy) <= limit
    /\ dx * dx + dy * dy <= limit * limit

\* math.hypot(dx, dy) < limit
HypotLess(dx, dy, limit) ==
    /\ limit > 0
    /\ Abs(dx) < limit
    /\ Abs(dy) < limit
    /\ dx * dx + dy * dy < limit * limit

\* a collision test that does not count touching circles
check_collision_strict(b1, b2) ==
    HypotLess(b1.x - b2.x, b1.y - b2.y, b1.radius + b2.radius)

\* check_collision(b1, b2): distance(b1, b2) <= b1.radius + b2.radius
check_collision(b1, b2) ==
    HypotLeq(b1.x - b2.x, b1.y - b2.y, b1.radius + b2.radius)

----------------------------------------------------------------------------
(* levels.py: the level factory.  Objects are allocated in source order,   *)
(* each with a fresh identity starting at `oid`.                           *)

level_one(oid) ==
    [bodies |-> << Body(oid, 600, 400, 500000, 25, 0, 0),
                   Body(oid + 1, 300, 300, 20000, 15, 0, 80),
                   Body(oid + 2, 900, 500, 30000, 18, 0, -60) >>,
     target |-> Body(oid + 3, 600, 750, 0, 40, 0, 0),
     ship |-> SpaceShip(oid + 4, 600, 100, 50, 10, 0, 0, 350, 1200),
     next_oid |-> oid + 5]

\* level_two is imported by main.py but its definition is not among the
\* sources; it is modelled from the factory contract: a fresh list of
\* bodies, a fresh ship and a fresh target.
level_two(oid) ==
    [bodies |-> << Body(oid, 600, 400, 500000, 25, 0, 0) >>,
     target |-> Body(oid + 1, 900, 400, 0, 40, 0, 0),
     ship |-> SpaceShip(oid + 2, 300, 400, 50, 10, 0, 0, 350, 1200),
     next_oid |-> oid + 3]

\* a reset_level that hands out the objects built by the first call of each
\* factory instead of calling the factory again
reset_level_cached(index, oid) ==
    IF index % NumLevels = 0 THEN level_one(1) ELSE level_two(1)

\* main.py: reset_level(index) = LEVELS[index % len(LEVELS)]()
reset_level(index, oid) ==
    IF index % NumLevels = 0 THEN level_one(oid) ELSE level_two(oid)

----------------------------------------------------------------------------
(* main.py: the physics block of one frame *)

RECURSIVE SolveLoop(_, _)
\* for obj in all_objects: obj.compute_gravitational_acceleration(all_objects)
SolveLoop(objs, k) ==
    IF k > Len(objs) THEN [objs |-> objs, err |-> FALSE]
    ELSE LET t == GravTotals(objs[k], objs)
         IN IF t.err THEN [objs |-> objs, err |-> TRUE]
            ELSE SolveLoop([objs EXCEPT ![k] = StoreAcc(objs[k], t)], k + 1)

\* for obj in bodies: obj.update(dt); ship.update(dt)
\* (the ship is the last element of all_objects)
Integrate(objs, d) ==
    [k \in 1..Len(objs) |->
        IF k = Len(objs) THEN ShipUpdate(objs[k], d) ELSE BodyUpdate(objs[k], d)]

RECURSIVE InterleavedLoop(_, _, _)
InterleavedLoop(objs, k, d) ==
    IF k > Len(objs) THEN [objs |-> objs, err |-> FALSE]
    ELSE IF GravTotals(objs[k], objs).err THEN [objs |-> objs, err |-> TRUE]
    ELSE LET solved == compute_gravitational_acceleration(objs[k], objs)
             moved == IF k = Len(objs) THEN ShipUpdate(solved, d)
                      ELSE BodyUpdate(solved, d)
         IN InterleavedLoop([objs EXCEPT ![k] = moved], k + 1, d)

\* a frame loop that solves and integrates one object at a time
StepObjectsInterleaved(objs, d) == InterleavedLoop(objs, 1, d)

\* main.py lines 261-268: gravity solve for all objects, then integration
StepObjects(objs, d) ==
    LET s == SolveLoop(objs, 1)
    IN IF s.err THEN s ELSE [objs |-> Integrate(s.objs, d), err |-> FALSE]

RECURSIVE HitsHazard(_, _, _, _)
\* the loop over bodies: skip the target, stop at the first collision
HitsHazard(sh, bs, tg, k) ==
    IF k > Len(bs) THEN FALSE
    ELSE IF bs[k].oid = tg.oid THEN HitsHazard(sh, bs, tg, k + 1)
    ELSE IF check_collision(sh, bs[k]) THEN TRUE
    ELSE HitsHazard(sh, bs, tg, k + 1)

\* math.hypot(ship.vx, ship.vy) < limit
SpeedBelow(sh, limit) == HypotLess(sh.vx, sh.vy, limit * VelScale)

\* a target check that does not look at the outcome of the hazard loop
SuccessAfterIgnoringHazard(sh, tg, over, old) ==
    IF check_collision(sh, tg) /\ SpeedBelow(sh, SpeedThreshold) THEN TRUE ELSE old

\* a target check that ignores the speed
SuccessAfterAnySpeed(sh, tg, over, old) ==
    IF ~over /\ check_collision(sh, tg) THEN TRUE ELSE old

\* main.py lines 277-281: the value of `success` after the target check
SuccessAfter(sh, tg, over, old) ==
    IF ~over /\ check_collision(sh, tg) /\ SpeedBelow(sh, SpeedThreshold) THEN TRUE
    ELSE old

----------------------------------------------------------------------------
(* main.py: the frame loop.  Bounds of the exploration. *)

MaxFrames == 2
MaxEvents == 2

\* The numeric range of the exploration: a physics step is explored only
\* when no two distinct centres are nearer than CloseLimit position units
\* (unless they coincide, which the gravity solve skips) and no velocity
\* component exceeds VelLimit, so that every product stays in range.
CloseLimit == 40
VelLimit == 15000000

TooClose(a, b) ==
    LET dx == a.x - b.x
        dy == a.y - b.y
    IN /\ a.oid # b.oid
       /\ <<dx, dy>> # <<0, 0>>
       /\ Abs(dx) < CloseLimit
       /\ Abs(dy) < CloseLimit

InRange(objs) ==
    \A i \in 1..Len(objs) :
        /\ Abs(objs[i].vx) <= VelLimit
        /\ Abs(objs[i].vy) <= VelLimit
        /\ \A j \in 1..Len(objs) : ~TooClose(objs[i], objs[j])

\* frame times offered to clock.tick, in quarter seconds
DtChoices == {34, 68}

\* mouse positions offered to MOUSEBUTTONDOWN, in pixels
MousePositions == {<<600, 130>>, <<600, 100>>}

MouseButtons == {1, 2, 3}

StrafeKeys == {"left", "right", "up", "down"}

StrafeField(k) == CASE k = "left" -> "strafe_left" [] k = "right" -> "strafe_right"
                    [] k = "up" -> "strafe_up" [] OTHER -> "strafe_down"

Init ==
    LET L == reset_level(0, 1)
    IN /\ bodies = L.bodies
       /\ ship = L.ship
       /\ target = L.target
       /\ next_oid = L.next_oid
       /\ running = TRUE
       /\ game_over = FALSE
       /\ success = FALSE
       /\ elapsed = 0
       /\ level_index = 0
       /\ score_total = 0
       /\ held = {}
       /\ pc = "tick"
       /\ frame = 0
       /\ nev = 0
       /\ dt = 0
       /\ pre = <<>>
       /\ raised = FALSE
       /\ hist = <<>>
       /\ ret = FALSE

\* a tick whose timer keeps counting after the level has ended
TickAlwaysCounting(d) ==
    /\ pc = "tick"
    /\ running
    /\ frame < MaxFrames
    /\ dt' = d
    /\ elapsed' = elapsed + d
    /\ frame' = frame + 1
    /\ pc' = "events"
    /\ UNCHANGED <<bodies, ship, target, next_oid, running, game_over, success,
                   level_index, score_total, held, nev, pre, raised, hist, ret>>

\* lines 153-157: clock.tick, dt, the elapsed timer
Tick(d) ==
    /\ pc = "tick"
    /\ running
    /\ frame < MaxFrames
    /\ dt' = d
    /\ elapsed' = IF ~game_over /\ ~success THEN elapsed + d ELSE elapsed
    /\ frame' = frame + 1
    /\ pc' = "events"
    /\ UNCHANGED <<bodies, ship, target, next_oid, running, game_over, success,
                   level_index, score_total, held, nev, pre, raised, hist, ret>>

\* one event taken from pygame.event.get()
Event ==
    /\ pc = "events"
    /\ nev < MaxEvents
    /\ nev' = nev + 1
    /\ UNCHANGED <<pc, frame, dt, pre, raised, hist, ret>>

\* lines 159-160, 162-163: QUIT or Escape
EvQuit ==
    /\ Event
    /\ running' = FALSE
    /\ UNCHANGED <<bodies, ship, target, next_oid, game_over, success, elapsed,
                   level_index, score_total, held>>

\* lines 164-172: R restarts the current level
EvKeyDownR ==
    /\ Event
    /\ LET L == reset_level(level_index, next_oid)
       IN /\ bodies' = L.bodies
          /\ ship' = L.ship
          /\ target' = L.target
          /\ next_oid' = L.next_oid
    /\ game_over' = FALSE
    /\ success' = FALSE
    /\ elapsed' = 0
    /\ UNCHANGED <<running, level_index, score_total, held>>

\* int(ship.fuel + max(0.0, 500 - elapsed * 20))
LevelScore(sh, el) ==
    Div(sh.fuel + FuelScale * Max(0, 500 - (el * 20) \div TicksPerSecond), FuelScale)

\* lines 173-181: N advances to the next level, only after success; without
\* success the key falls through every later branch
EvKeyDownN ==
    /\ Event
    /\ IF success
       THEN LET idx == (level_index + 1) % NumLevels
                L == reset_level(idx, next_oid)
            IN /\ level_index' = idx
               /\ score_total' = score_total + LevelScore(ship, elapsed)
               /\ bodies' = L.bodies
               /\ ship' = L.ship
               /\ target' = L.target
               /\ next_oid' = L.next_oid
               /\ game_over' = FALSE
               /\ success' = FALSE
               /\ elapsed' = 0
       ELSE UNCHANGED <<level_index, score_total, bodies, ship, target, next_oid,
                        game_over, success, elapsed>>
    /\ UNCHANGED <<running, held>>

\* lines 182-186: A / D keydown call rotate with dt=0
EvKeyDownRotate(k) ==
    /\ Event
    /\ k \notin held
    /\ held' = held \cup {k}
    /\ ship' = rotate(ship, IF k = "a" THEN 1 ELSE -1, 0)
    /\ UNCHANGED <<bodies, target, next_oid, running, game_over, success, elapsed,
                   level_index, score_total>>

\* lines 187-192 and 206-211: W / S set and clear the oriented thrust flags
EvKeyW(down) ==
    /\ Event
    /\ down = ("w" \notin held)
    /\ held' = IF down THEN held \cup {"w"} ELSE held \ {"w"}
    /\ ship' = [ship EXCEPT !.thrusting_forward = down]
    /\ UNCHANGED <<bodies, target, next_oid, running, game_over, success, elapsed,
                   level_index, score_total>>

EvKeyS(down) ==
    /\ Event
    /\ down = ("s" \notin held)
    /\ held' = IF down THEN held \cup {"s"} ELSE held \ {"s"}
    /\ ship' = [ship EXCEPT !.thrusting_backward = down]
    /\ UNCHANGED <<bodies, target, next_oid, running, game_over, success, elapsed,
                   level_index, score_total>>

\* lines 193-200 and 212-219: the arrow keys set and clear the strafe flags
EvKeyStrafe(k, down) ==
    /\ Event
    /\ down = (k \notin held)
    /\ held' = IF down THEN held \cup {k} ELSE held \ {k}
    /\ ship' = [ship EXCEPT ![StrafeField(k)] = down]
    /\ UNCHANGED <<bodies, target, next_oid, running, game_over, success, elapsed,
                   level_index, score_total>>

\* lines 204-205: A / D keyup does nothing
EvKeyUpRotate(k) ==
    /\ Event
    /\ k \in held
    /\ held' = held \ {k}
    /\ UNCHANGED <<bodies, ship, target, next_oid, running, game_over, success,
                   elapsed, level_index, score_total>>

\* lines 220-247: a mouse click spawns a body unless the game has ended
EvMouseDown(button, pos) ==
    /\ Event
    /\ IF ~game_over /\ ~success /\ button \in {1, 3}
       THEN /\ bodies' = Append(bodies,
                   IF button = 1
                   THEN Body(next_oid, pos[1], pos[2], 10000, 12, 0, 0)
                   ELSE Body(next_oid, pos[1], pos[2], 80000, 22, 0, 0))
            /\ next_oid' = next_oid + 1
       ELSE UNCHANGED <<bodies, next_oid>>
    /\ UNCHANGED <<ship, target, running, game_over, success, elapsed,
                   level_index, score_total, held>>

\* lines 251-258: rotation_dir from pygame.key.get_pressed()
RotationDir == (IF "a" \in held THEN 1 ELSE 0) - (IF "d" \in held THEN 1 ELSE 0)

\* lines 248-284: the physics block, then drawing (which changes no state)
Physics ==
    /\ pc = "events"
    /\ IF ~game_over /\ ~success
       THEN \E all_objects \in {Append(bodies, IF RotationDir # 0
                                               THEN rotate(ship, RotationDir, dt)
                                               ELSE ship)} :
            /\ InRange(all_objects)
            /\ \E s \in {StepObjects(all_objects, dt)} :
               LET n == Len(bodies)
                   bs == SubSeq(s.objs, 1, n)
                   sh == s.objs[n + 1]
               IN \E over \in {HitsHazard(sh, bs, target, 1)} :
                  /\ pre' = all_objects
                  /\ bodies' = bs
                  /\ ship' = sh
                  /\ raised' = s.err
                  /\ game_over' = IF s.err THEN game_over ELSE over
                  /\ success' = IF s.err THEN success
                                ELSE SuccessAfter(sh, target, over, success)
                  /\ pc' = IF s.err THEN "crashed"
                           ELSE IF running THEN "tick" ELSE "done"
       ELSE /\ UNCHANGED <<pre, bodies, ship, raised, game_over, success>>
            /\ pc' = IF running THEN "tick" ELSE "done"
    /\ UNCHANGED <<target, next_oid, running, elapsed, level_index, score_total,
                   held, frame, nev, dt, hist, ret>>

Next ==
    \/ \E d \in DtChoices : Tick(d)
    \/ EvQuit
    \/ EvKeyDownR
    \/ EvKeyDownN
    \/ \E k \in {"a", "d"} : EvKeyDownRotate(k)
    \/ \E k \in {"a", "d"} : EvKeyUpRotate(k)
    \/ \E down \in BOOLEAN : EvKeyW(down)
    \/ \E down \in BOOLEAN : EvKeyS(down)
    \/ \E k \in StrafeKeys, down \in BOOLEAN : EvKeyStrafe(k, down)
    \/ \E b \in MouseButtons, p \in MousePositions : EvMouseDown(b, p)
    \/ Physics

Spec == Init /\ [][Next]_vars

----------------------------------------------------------------------------
(* The ship's methods called directly: rotate, apply_thruster, update and  *)
(* the flag assignments main.py makes.                                     *)

MaxCalls == 3

\* (thrust_power, mass) of the ships constructed: level_one's ship and the
\* constructor's default thrust_power
ShipKinds == {<<350, 50>>, <<200, 50>>}

FuelChoices == {0, 10, 1200}

ShipDts == {0, 1, 4}

Directions == {-1, 0, 1}

\* the loop variables, unused outside the frame loop
NoLoop ==
    /\ target = Body(0, 0, 0, 0, 1, 0, 0)
    /\ next_oid = 10
    /\ running = FALSE
    /\ game_over = FALSE
    /\ success = FALSE
    /\ elapsed = 0
    /\ level_index = 0
    /\ score_total = 0
    /\ held = {}
    /\ pc = "call"
    /\ frame = 0
    /\ nev = 0
    /\ raised = FALSE

ShipInit ==
    /\ NoLoop
    /\ dt = 0
    /\ bodies = <<>>
    /\ \E k \in ShipKinds, f \in FuelChoices :
          ship = SpaceShip(1, 0, 0, k[2], 10, 0, 0, k[1], f)
    /\ pre = <<>>
    /\ hist = <<>>
    /\ ret = [op |-> "init", arg |-> 0]

\* a call on the ship; `pre` keeps the ship as it was before the call,
\* `ret` names the method and its direction argument, `dt` its time argument
ShipCall(name, arg, d) ==
    /\ frame < MaxCalls
    /\ frame' = frame + 1
    /\ pre' = <<ship>>
    /\ ret' = [op |-> name, arg |-> arg]
    /\ dt' = d
    /\ UNCHANGED <<bodies, target, next_oid, running, game_over, success, elapsed,
                   level_index, score_total, held, pc, nev, raised, hist>>

ShipRotate(direction, d) ==
    /\ ShipCall("rotate", direction, d)
    /\ ship' = rotate(ship, direction, d)

ShipThrust(d) ==
    /\ ShipCall("apply_thruster", 0, d)
    /\ ship' = apply_thruster(ship, d)

ShipStep(d) ==
    /\ ShipCall("update", 0, d)
    /\ ship' = ShipUpdate(ship, d)

\* main.py lines 187-192, 206-211
ShipSetThrust(fwd, bwd) ==
    /\ ShipCall("flags", 0, 0)
    /\ ship' = [ship EXCEPT !.thrusting_forward = fwd, !.thrusting_backward = bwd]

\* main.py lines 193-200, 212-219
ShipSetStrafe(k, down) ==
    /\ ShipCall("flags", 0, 0)
    /\ ship' = [ship EXCEPT ![StrafeField(k)] = down]

ShipNext ==
    \/ \E dir \in Directions, d \in ShipDts : ShipRotate(dir, d)
    \/ \E d \in ShipDts : ShipThrust(d)
    \/ \E d \in ShipDts : ShipStep(d)
    \/ \E fwd \in BOOLEAN, bwd \in BOOLEAN : ShipSetThrust(fwd, bwd)
    \/ \E k \in StrafeKeys, down \in BOOLEAN : ShipSetStrafe(k, down)

SpecShip == ShipInit /\ [][ShipNext]_vars

----------------------------------------------------------------------------
(* Claims about the ship's methods, checked under SpecShip *)

Called(name) == pre # <<>> /\ ret.op = name

Before == pre[1]

\* C2: for a ship constructed with fuel >= 0, after any call of rotate,
\* apply_thruster or update with dt >= 0, under any setting of the thrust
\* flags, the fuel is not negative and not larger than before the call.
C2_FuelNeverNegativeNorGrows ==
    /\ ship.fuel >= 0
    /\ pre # <<>> => ship.fuel <= Before.fuel

\* the burn asked for more fuel than was left, and the fuel stopped at 0
C2_Witness ==
    /\ Called("apply_thruster") \/ Called("update")
    /\ Before.fuel > 0
    /\ ThrustDir(Before) # 0
    /\ Before.fuel * Before.mass * TicksPerSecond
         < Before.thrust_power * dt * FuelScale
    /\ ship.fuel = 0

\* C3: with the fuel at 0, apply_thruster leaves vx, vy and fuel unchanged
\* whatever the thrust flags are, and rotate still turns the ship by
\* direction * dt.
C3_NoThrustWithoutFuel ==
    /\ (Called("apply_thruster") /\ Before.fuel = 0) =>
          /\ ship.vx = Before.vx
          /\ ship.vy = Before.vy
          /\ ship.fuel = 0
    /\ (Called("rotate") /\ Before.fuel = 0) =>
          /\ ship.angle = Before.angle + ret.arg * dt
          /\ (ret.arg # 0 /\ dt > 0) => ship.angle # Before.angle

\* apply_thruster was called with a thrust flag set, dt > 0 and no fuel
C3_Witness ==
    /\ Called("apply_thruster")
    /\ Before.fuel = 0
    /\ ThrustDir(Before) # 0
    /\ dt > 0
    /\ ship.vx = Before.vx /\ ship.vy = Before.vy

\* forward_flag - backward_flag, from the flags themselves
NetThrust(sh) ==
    IF sh.thrusting_forward = sh.thrusting_backward THEN 0
    ELSE IF sh.thrusting_forward THEN 1 ELSE -1

\* C9: with fuel > 0, apply_thruster(dt) adds (thrust_power / mass) *
\* (forward - backward) * dt to the velocity along the facing angle and
\* takes |acceleration| * dt from the fuel, floored at 0; with both flags or
\* neither set nothing changes; a ship at rest with thrust_power 350 and
\* mass 50 thrusting forward for 1 second gains speed 7.0 along its facing
\* angle and burns 7.0 fuel.
C9_OrientedThrust ==
    (Called("apply_thruster") /\ Before.fuel > 0) =>
       LET net == NetThrust(Before)
           full == Before.thrust_power * Abs(net) * dt * FuelScale
           left == Before.fuel * Before.mass * TicksPerSecond
       IN /\ (ship.vx - Before.vx) * Before.mass * TicksPerSecond
               = Before.thrust_power * net * Cos(Before.angle) * dt * VelScale
          /\ (ship.vy - Before.vy) * Before.mass * TicksPerSecond
               = Before.thrust_power * net * Sin(Before.angle) * dt * VelScale
          /\ IF left <= full THEN ship.fuel = 0
             ELSE (Before.fuel - ship.fuel) * Before.mass * TicksPerSecond = full
          /\ net = 0 => ship = Before
          /\ (/\ net = 1 /\ dt = TicksPerSecond
              /\ Before.vx = 0 /\ Before.vy = 0
              /\ Before.thrust_power = 350 /\ Before.mass = 50
              /\ Before.fuel >= 7 * FuelScale) =>
                /\ ship.vx = 7 * VelScale * Cos(Before.angle)
                /\ ship.vy = 7 * VelScale * Sin(Before.angle)
                /\ Before.fuel - ship.fuel = 7 * FuelScale

\* the scenario of the claim: at rest, full fuel, forward thrust for 1 s
C9_Witness ==
    /\ Called("apply_thruster")
    /\ dt = TicksPerSecond
    /\ Before.thrusting_forward /\ ~Before.thrusting_backward
    /\ Before.vx = 0 /\ Before.vy = 0
    /\ Before.thrust_power = 350 /\ Before.mass = 50
    /\ Before.fuel = 1200 * FuelScale
    /\ ship.vy = -7 * VelScale
    /\ ship.fuel = 1193 * FuelScale

\* the strafe direction in {-1,0,1} x {-1,0,1}, screen-aligned (y grows down)
StrafeDir(sh) ==
    << (IF sh.strafe_right THEN 1 ELSE 0) - (IF sh.strafe_left THEN 1 ELSE 0),
       (IF sh.strafe_down THEN 1 ELSE 0) - (IF sh.strafe_up THEN 1 ELSE 0) >>

\* C10: when a strafe flag is set and fuel > 0, update(dt) adds
\* thrust_power / mass per unit time to the velocity, component-wise along
\* the strafe direction and whatever the facing angle, and burns fuel at
\* thrust_power / mass times the Manhattan length of the direction over 2,
\* floored at 0.  (Stated for a ship with no oriented thrust and no
\* gravity, so that the strafe is the only acceleration.)
C10_DirectionalThrust ==
    (/\ Called("update")
     /\ Before.fuel > 0
     /\ NetThrust(Before) = 0
     /\ Before.ax = 0 /\ Before.ay = 0) =>
       LET dir == StrafeDir(Before)
           manhattan == Abs(dir[1]) + Abs(dir[2])
           full == Before.thrust_power * manhattan * dt * FuelScale
           left == Before.fuel * Before.mass * TicksPerSecond * 2
       IN /\ (ship.vx - Before.vx) * Before.mass * TicksPerSecond
               = Before.thrust_power * dir[1] * dt * VelScale
          /\ (ship.vy - Before.vy) * Before.mass * TicksPerSecond
               = Before.thrust_power * dir[2] * dt * VelScale
          /\ IF left <= full THEN ship.fuel = 0
             ELSE (Before.fuel - ship.fuel) * Before.mass * TicksPerSecond * 2 = full

----------------------------------------------------------------------------
(* Trails: a body and a ship updated frame after frame (main.py lines      *)
(* 266-268) for longer than the trail cap.                                 *)

MaxSteps == 505

TrailDts == {1, 4}

TrailStart ==
    /\ NoLoop
    /\ dt \in TrailDts
    /\ \E v \in {1, 2} : bodies = << Body(1, 0, 0, 0, 1, v, 0) >>
    /\ \E fwd \in BOOLEAN :
          ship = [SpaceShip(2, 0, 0, 50, 10, 0, 0, 350, 1200)
                    EXCEPT !.thrusting_forward = fwd, !.vx = VelScale]
    /\ pre = <<>>
    /\ hist = << <<>>, <<>> >>
    /\ ret = [op |-> "init", arg |-> 0]

\* for obj in bodies: obj.update(dt); ship.update(dt)
UpdateAll ==
    /\ frame < MaxSteps
    /\ frame' = frame + 1
    /\ bodies' = [k \in 1..Len(bodies) |-> BodyUpdate(bodies[k], dt)]
    /\ ship' = ShipUpdate(ship, dt)
    /\ hist' = [k \in 1..Len(hist) |->
                  IF k <= Len(bodies)
                  THEN Append(hist[k], <<bodies'[k].x, bodies'[k].y>>)
                  ELSE Append(hist[k], <<ship'.x, ship'.y>>)]
    /\ UNCHANGED <<target, next_oid, running, game_over, success, elapsed,
                   level_index, score_total, held, pc, nev, dt, pre, raised, ret>>

SpecTrail == TrailStart /\ [][UpdateAll]_vars

\* the last n elements of a sequence
LastN(q, n) == SubSeq(q, Len(q) - Min(Len(q), n) + 1, Len(q))

\* C1: after any sequence of Body.update / SpaceShip.update calls the trail
\* is never longer than the cap of 500, and it holds exactly the most
\* recent positions in the order they were produced (the oldest sample is
\* the one evicted).
C1_TrailBoundedFifo ==
    /\ \A k \in 1..Len(bodies) :
          /\ Len(bodies[k].trail) <= 500
          /\ bodies[k].trail = LastN(hist[k], 500)
    /\ Len(ship.trail) <= 500
    /\ ship.trail = LastN(hist[Len(bodies) + 1], 500)

\* more positions were produced than the trail holds, and they differ
C1_Witness ==
    /\ Len(hist[1]) > TrailCap
    /\ Len(bodies[1].trail) = TrailCap
    /\ bodies[1].trail[1] # hist[1][1]
    /\ Len(hist[2]) > TrailCap
    /\ Len(ship.trail) = TrailCap
    /\ ship.trail[TrailCap] # ship.trail[TrailCap - 1]

----------------------------------------------------------------------------
(* compute_gravitational_acceleration called on bodies whose pairwise      *)
(* distances are whole pixels, with masses for which G * m / r^3 is a      *)
(* whole number of acceleration units: there the fixed-point result is the *)
(* exact one.                                                              *)

MaxGravCalls == 2

\* corners of a 3 x 4 rectangle: every distance is 3, 4 or 5
GravPositions == {<<0, 0>>, <<3, 0>>, <<0, 4>>, <<3, 4>>}

GravMasses == {0, 67500, 135000}

\* acceleration left over from an earlier frame
StaleAcc == {0, 1000}

WithAcc(b, a) == [b EXCEPT !.ax = a, !.ay = -a]

GravStart ==
    /\ NoLoop
    /\ dt = 0
    /\ ship = SpaceShip(9, 0, 0, 50, 10, 0, 0, 350, 1200)
    /\ \E a \in StaleAcc :
          \/ \E p1 \in GravPositions, p2 \in GravPositions, p3 \in GravPositions,
                m1 \in GravMasses, m2 \in GravMasses, m3 \in GravMasses :
                bodies = << WithAcc(Body(1, p1[1], p1[2], m1, 1, 0, 0), a),
                            WithAcc(Body(2, p2[1], p2[2], m2, 1, 0, 0), a),
                            WithAcc(Body(3, p3[1], p3[2], m3, 1, 0, 0), a) >>
          \/ \E m \in GravMasses :
                bodies = << WithAcc(Body(1, 0, 0, 0, 1, 0, 0), a),
                            WithAcc(Body(2, 10, 0, m, 1, 0, 0), a) >>
    /\ pre = <<>>
    /\ hist = <<>>
    /\ ret = [op |-> "init", arg |-> 0]

\* bodies[i].compute_gravitational_acceleration(bodies)
GravCall(i) ==
    /\ ~raised
    /\ frame < MaxGravCalls
    /\ frame' = frame + 1
    /\ pre' = bodies
    /\ ret' = [op |-> "gravity", arg |-> i]
    /\ bodies' = [bodies EXCEPT ![i] = compute_gravitational_acceleration(bodies[i], bodies)]
    /\ raised' = GravTotals(bodies[i], bodies).err
    /\ UNCHANGED <<ship, target, next_oid, running, game_over, success, elapsed,
                   level_index, score_total, held, pc, nev, dt, hist>>

GravNext == \E i \in 1..Len(bodies) : GravCall(i)

SpecGrav == GravStart /\ [][GravNext]_vars

\* the whole number r with r * r = n
ExactRoot(n) == CHOOSE r \in 0..64 : r * r = n

\* G * other.mass / dist^2 toward `other`, along the axis whose offset is
\* given, everything in pixels: G * m * offset / dist^3
ClosedFormPull(m, offset, dist) ==
    (GNum * m * offset * AccScale) \div (GDen * dist * dist * dist)

RECURSIVE ClosedFormSum(_, _, _, _)
\* the sum of the closed-form pulls on objs[i] from every other object at a
\* non-zero distance, along axis "x" or "y"
ClosedFormSum(objs, i, j, axis) ==
    IF j > Len(objs) THEN 0
    ELSE LET dx == (objs[j].x - objs[i].x) \div PosScale
             dy == (objs[j].y - objs[i].y) \div PosScale
             dist == ExactRoot(dx * dx + dy * dy)
             one == IF j = i \/ dist = 0 THEN 0
                    ELSE ClosedFormPull(objs[j].mass, IF axis = "x" THEN dx ELSE dy, dist)
         IN one + ClosedFormSum(objs, i, j + 1, axis)

\* C5: compute_gravitational_acceleration sets the acceleration to the sum,
\* over every other object at a non-degenerate distance, of a pull of
\* magnitude G * other.mass / dist^2 toward that object, replacing whatever
\* value the previous frame left; a mass-0 body at (0,0) with a body of mass
\* M at (10,0) gets (G*M/100, 0); a mass-0 body pulls nothing.
C5_GravityClosedForm ==
    (pre # <<>> /\ ret.op = "gravity" /\ ~raised) =>
       LET i == ret.arg
       IN /\ bodies[i].ax = ClosedFormSum(pre, i, 1, "x")
          /\ bodies[i].ay = ClosedFormSum(pre, i, 1, "y")
          /\ (/\ Len(pre) = 2 /\ i = 1
              /\ pre[1].x = 0 /\ pre[1].y = 0 /\ pre[1].mass = 0
              /\ pre[2].x = 10 * PosScale /\ pre[2].y = 0) =>
                /\ bodies[1].ax * GDen * 100 = GNum * pre[2].mass * AccScale
                /\ bodies[1].ay = 0
          /\ (\A j \in 1..Len(pre) : j # i => pre[j].mass = 0) =>
                bodies[i].ax = 0 /\ bodies[i].ay = 0

\* the scenario of the claim, with a stale acceleration to replace
C5_Witness ==
    /\ pre # <<>> /\ ret.op = "gravity" /\ ret.arg = 1
    /\ Len(pre) = 2
    /\ pre[1].mass = 0 /\ pre[1].x = 0 /\ pre[1].y = 0 /\ pre[1].ax = 1000
    /\ pre[2].mass = 67500 /\ pre[2].x = 10 * PosScale /\ pre[2].y = 0
    /\ bodies[1].ax = 17280
    /\ bodies[1].ay = 0

\* objs without objs[i] itself and without the objects whose centre
\* coincides with that of objs[i]
RECURSIVE Apart(_, _, _)
Apart(objs, i, j) ==
    IF j > Len(objs) THEN <<>>
    ELSE IF j = i \/ (objs[j].x = objs[i].x /\ objs[j].y = objs[i].y)
         THEN Apart(objs, i, j + 1)
         ELSE <<objs[j]>> \o Apart(objs, i, j + 1)

\* C6: an object never contributes to its own acceleration, a pair of
\* coincident centres contributes exactly zero and raises no
\* division-by-zero error, and the remaining objects are still summed: the
\* result is the one obtained from the list without the object itself and
\* without the objects coincident with it.
C6_CoincidentPairsSkipped ==
    /\ ~raised
    /\ (pre # <<>> /\ ret.op = "gravity") =>
          LET i == ret.arg
              rest == GravTotals(pre[i], Apart(pre, i, 1))
          IN /\ bodies[i].ax = rest.ax
             /\ bodies[i].ay = rest.ay
             /\ Apart(pre, i, 1) = <<>> => bodies[i].ax = 0 /\ bodies[i].ay = 0

\* the solve ran on a body that shares its centre with a massive body and
\* is pulled by a third one elsewhere
C6_Witness ==
    /\ pre # <<>> /\ ret.op = "gravity" /\ ret.arg = 1
    /\ Len(pre) = 3
    /\ pre[2].x = pre[1].x /\ pre[2].y = pre[1].y /\ pre[2].mass > 0
    /\ pre[3].x # pre[1].x /\ pre[3].mass > 0
    /\ bodies[1].ax # 0
    /\ ~raised

----------------------------------------------------------------------------
(* check_collision called on pairs of bodies *)

MaxCollCalls == 2

CollCoords == {<<0, 0>>, <<3, 0>>, <<3, 4>>, <<6, 8>>, <<6, 4>>}

CollRadii == {1, 2, 3, 4, 6}

CollStart ==
    /\ NoLoop
    /\ dt = 0
    /\ ship = SpaceShip(9, 0, 0, 50, 10, 0, 0, 350, 1200)
    /\ \E p1 \in CollCoords, p2 \in CollCoords, r1 \in CollRadii, r2 \in CollRadii :
          bodies = << Body(1, p1[1], p1[2], 0, r1, 0, 0),
                      Body(2, p2[1], p2[2], 1, r2, 0, 0) >>
    /\ pre = <<>>
    /\ hist = <<>>
    /\ ret = [op |-> "init", arg |-> <<0, 0>>, val |-> FALSE]

\* check_collision(bodies[i], bodies[j]): a function that reads its
\* arguments and assigns nothing
CollCall(i, j) ==
    /\ frame < MaxCollCalls
    /\ frame' = frame + 1
    /\ pre' = bodies
    /\ ret' = [op |-> "check_collision", arg |-> <<i, j>>,
               val |-> check_collision(bodies[i], bodies[j])]
    /\ UNCHANGED <<bodies, ship, target, next_oid, running, game_over, success,
                   elapsed, level_index, score_total, held, pc, nev, dt, raised,
                   hist>>

CollNext == \E i \in 1..Len(bodies), j \in 1..Len(bodies) : CollCall(i, j)

SpecColl == CollStart /\ [][CollNext]_vars

\* the smallest whole r with r * r >= n: for a whole limit, the Euclidean
\* distance sqrt(n) is <= limit exactly when this r is
CeilRoot(n) == CHOOSE r \in 0..64 : r * r >= n /\ (r = 0 \/ (r - 1) * (r - 1) < n)

\* C7: check_collision(a, b) is true iff the Euclidean distance between the
\* centres is <= the sum of the radii (touching counts), it is symmetric,
\* and it changes no field of either body.
C7_CollisionPredicate ==
    (pre # <<>> /\ ret.op = "check_collision") =>
       LET a == pre[ret.arg[1]]
           b == pre[ret.arg[2]]
           dx == a.x - b.x
           dy == a.y - b.y
       IN /\ ret.val = (CeilRoot(dx * dx + dy * dy) <= a.radius + b.radius)
          /\ ret.val = check_collision(b, a)
          /\ bodies = pre

\* two distinct bodies whose circles just touch were tested
C7_Witness ==
    /\ pre # <<>> /\ ret.op = "check_collision"
    /\ ret.arg = <<1, 2>>
    /\ LET dx == pre[1].x - pre[2].x
           dy == pre[1].y - pre[2].y
           rsum == pre[1].radius + pre[2].radius
       IN dx # 0 /\ dy # 0 /\ dx * dx + dy * dy = rsum * rsum
    /\ ret.val

----------------------------------------------------------------------------
(* Claims about the frame loop, checked under Spec *)

\* a step of the frame loop in which the physics block ran to its end
PhysicsRan ==
    /\ pc = "events" /\ pc' \in {"tick", "done"}
    /\ ~game_over /\ ~success

\* C4: in every frame the gravity solve runs for all objects before any
\* object is integrated: the acceleration each object (every body and the
\* ship) carries after the frame is the one computed from the positions all
\* objects had before the frame's integration, and each velocity advanced
\* by exactly that acceleration (plus, for the ship, its thrust).
C4_SolveBeforeIntegrate ==
    [][PhysicsRan =>
         LET start == Append(bodies, ship)
             thrust == apply_thruster(
                         IF RotationDir # 0 THEN rotate(ship, RotationDir, dt) ELSE ship,
                         dt)
         IN /\ Len(bodies') = Len(bodies)
            /\ \A k \in 1..Len(bodies) :
                  LET t == GravTotals(bodies[k], start)
                  IN /\ bodies'[k].ax = t.ax
                     /\ bodies'[k].ay = t.ay
                     /\ bodies'[k].vx = bodies[k].vx + t.ax * dt
                     /\ bodies'[k].vy = bodies[k].vy + t.ay * dt
            /\ LET t == GravTotals(ship, start)
               IN /\ ship'.ax = t.ax
                  /\ ship'.ay = t.ay
                  /\ ship'.vx = thrust.vx + t.ax * dt
                  /\ ship'.vy = thrust.vy + t.ay * dt]_vars

\* a frame has run in which a planet moved, and the acceleration it carries
\* is the one of its old position, not of its new one
C4_Witness ==
    /\ pc = "tick" /\ frame >= 1 /\ pre # <<>>
    /\ Len(bodies) >= 3 /\ Len(pre) = Len(bodies) + 1
    /\ bodies[2].oid = pre[2].oid
    /\ bodies[2].x # pre[2].x
    /\ bodies[2].ax = GravTotals(pre[2], pre).ax
    /\ bodies[2].ax # GravTotals(bodies[2], Append(bodies, ship)).ax

\* the ship's speed is strictly below 50 px/s
SlowerThan50(sh) ==
    /\ Abs(sh.vx) < 50 * VelScale
    /\ Abs(sh.vy) < 50 * VelScale
    /\ sh.vx * sh.vx + sh.vy * sh.vy < (50 * VelScale) * (50 * VelScale)

\* C8: success becomes true only in a frame where the ship overlaps the
\* target, has collided with no hazard body in that frame and is strictly
\* slower than 50 px/s; a ship that overlaps the target at 50 px/s or more
\* leaves success false, and the game keeps running.
C8_SuccessOnlyWhenSlow ==
    [][/\ (~success /\ success') =>
             /\ PhysicsRan
             /\ check_collision(ship', target')
             /\ ~game_over'
             /\ \A k \in 1..Len(bodies') : ~check_collision(ship', bodies'[k])
             /\ SlowerThan50(ship')
       /\ (PhysicsRan /\ check_collision(ship', target') /\ ~SlowerThan50(ship')) =>
             /\ ~success'
             /\ running' = running
             /\ game_over' = (\E k \in 1..Len(bodies') :
                                 check_collision(ship', bodies'[k]))]_vars

\* the level was completed: the ship sits in the target, slow enough
C8_Witness ==
    /\ success /\ ~game_over
    /\ check_collision(ship, target)
    /\ SlowerThan50(ship)

----------------------------------------------------------------------------
(* The level factory on a heap.  Every object and every list has an        *)
(* address; a body's trail field holds the address of its list, the        *)
(* result of a factory call holds the addresses of the bodies list, the    *)
(* ship and the target.  `hist` is the heap, `pre` the results of the      *)
(* calls made so far, in order.                                            *)

MaxLevelSteps == 4

LevelDts == {1, 4}

\* the objects a factory call constructs, in construction order
LevelObjects(L) == L.bodies \o << L.target, L.ship >>

\* the list that field(default_factory=list) builds for the k-th object
TrailAddr(L, k) == L.next_oid + k - 1

\* the list `bodies` of the call
ListAddr(L) == L.next_oid + Len(LevelObjects(L))

\* return bodies, ship, target
LevelRefs(L, index) ==
    [bodies |-> ListAddr(L), ship |-> L.ship.oid, target |-> L.target.oid,
     index |-> index]

\* the heap after the constructors of L ran: a constructor builds a new
\* cell and never writes to an existing one
Construct(h, L) ==
    LET objs == LevelObjects(L)
        newo == {objs[k].oid : k \in 1..Len(objs)}
        newl == {TrailAddr(L, k) : k \in 1..Len(objs)} \cup {ListAddr(L)}
    IN [objs |-> [a \in DOMAIN h.objs \cup newo |->
                    IF a \in DOMAIN h.objs THEN h.objs[a]
                    ELSE LET k == CHOOSE k \in 1..Len(objs) : objs[k].oid = a
                         IN [objs[k] EXCEPT !.trail = TrailAddr(L, k)]],
        lists |-> [a \in DOMAIN h.lists \cup newl |->
                    IF a \in DOMAIN h.lists THEN h.lists[a]
                    ELSE IF a = ListAddr(L)
                         THEN [k \in 1..Len(L.bodies) |-> L.bodies[k].oid]
                         ELSE << >>]]

\* obj.update(dt) on the object at address a: the trail is read and
\* written through the address the object holds
UpdateAt(h, a, d) ==
    LET o == h.objs[a]
        before == [o EXCEPT !.trail = h.lists[o.trail]]
        after == IF "fuel" \in DOMAIN o THEN ShipUpdate(before, d)
                 ELSE BodyUpdate(before, d)
    IN [objs |-> [h.objs EXCEPT ![a] = [after EXCEPT !.trail = o.trail]],
        lists |-> [h.lists EXCEPT ![o.trail] = after.trail]]

RECURSIVE UpdateSeq(_, _, _, _)
\* for obj in addrs: obj.update(dt)
UpdateSeq(h, addrs, k, d) ==
    IF k > Len(addrs) THEN h
    ELSE LET h1 == UpdateAt(h, addrs[k], d)
         IN UpdateSeq([objs |-> h1.objs, lists |-> h1.lists], addrs, k + 1, d)

LevelsInit ==
    /\ NoLoop
    /\ dt = 0
    /\ bodies = << >>
    /\ ship = SpaceShip(0, 0, 0, 50, 10, 0, 0, 350, 1200)
    /\ pre = << >>
    /\ hist = [objs |-> << >>, lists |-> << >>]
    /\ ret = [op |-> "init", arg |-> 0]

LevelStep(name, arg) ==
    /\ frame < MaxLevelSteps
    /\ frame' = frame + 1
    /\ ret' = [op |-> name, arg |-> arg]
    /\ UNCHANGED <<bodies, ship, target, running, game_over, success, elapsed,
                   level_index, score_total, held, pc, nev, dt, raised>>

\* bodies, ship, target = reset_level(index)
LevelCall(index) ==
    /\ LevelStep("reset_level", index)
    /\ \E L \in {reset_level(index, next_oid)} :
          /\ hist' = Construct(hist, L)
          /\ pre' = Append(pre, LevelRefs(L, index))
          /\ next_oid' = Max(next_oid, ListAddr(L) + 1)

\* main.py lines 220-247 on the bodies list of the i-th call
LevelSpawn(i, button, pos) ==
    /\ LevelStep("spawn", i)
    /\ LET new_body == IF button = 1
                       THEN Body(next_oid, pos[1], pos[2], 10000, 12, 0, 0)
                       ELSE Body(next_oid, pos[1], pos[2], 80000, 22, 0, 0)
           lst == pre[i].bodies
       IN hist' = [objs |-> [a \in DOMAIN hist.objs \cup {next_oid} |->
                               IF a \in DOMAIN hist.objs THEN hist.objs[a]
                               ELSE [new_body EXCEPT !.trail = next_oid + 1]],
                   lists |-> [a \in DOMAIN hist.lists \cup {next_oid + 1} |->
                               IF a = lst THEN Append(hist.lists[a], next_oid)
                               ELSE IF a \in DOMAIN hist.lists THEN hist.lists[a]
                               ELSE << >>]]
    /\ next_oid' = next_oid + 2
    /\ UNCHANGED pre

\* main.py lines 266-268 on the objects of the i-th call
LevelUpdate(i, d) ==
    /\ LevelStep("update", i)
    /\ \E addrs \in {Append(hist.lists[pre[i].bodies], pre[i].ship)} :
          hist' = UpdateSeq(hist, addrs, 1, d)
    /\ UNCHANGED <<pre, next_oid>>

LevelsNext ==
    \/ \E index \in 0..(NumLevels - 1) : LevelCall(index)
    \/ \E i \in 1..Len(pre), b \in {1, 3}, p \in MousePositions : LevelSpawn(i, b, p)
    \/ \E i \in 1..Len(pre), d \in LevelDts : LevelUpdate(i, d)

SpecLevels == LevelsInit /\ [][LevelsNext]_vars

\* the addresses of the objects reachable from the result r
ObjAddrs(r, h) ==
    {h.lists[r.bodies][k] : k \in 1..Len(h.lists[r.bodies])} \cup {r.ship, r.target}

\* the addresses of the lists reachable from the result r
ListAddrs(r, h) == {r.bodies} \cup {h.objs[a].trail : a \in ObjAddrs(r, h)}

\* the value of the object at address a, without its identity
ValueAt(h, a) == [h.objs[a] EXCEPT !.oid = 0, !.trail = h.lists[h.objs[a].trail]]

\* what the result r looks like to its holder
View(r, h) ==
    [bodies |-> [k \in 1..Len(h.lists[r.bodies]) |-> ValueAt(h, h.lists[r.bodies][k])],
     ship |-> ValueAt(h, r.ship),
     target |-> ValueAt(h, r.target)]

\* the initial configuration of the level at `index`
InitialView(index) ==
    LET L == IF index % NumLevels = 0 THEN level_one(1) ELSE level_two(1)
    IN [bodies |-> [k \in 1..Len(L.bodies) |-> [L.bodies[k] EXCEPT !.oid = 0]],
        ship |-> [L.ship EXCEPT !.oid = 0],
        target |-> [L.target EXCEPT !.oid = 0]]

\* no object and no list is reachable from two results, and within one
\* result every object has a trail of its own
Fresh(p, h) ==
    /\ \A i \in 1..Len(p), j \in 1..Len(p) :
          i < j => /\ ObjAddrs(p[i], h) \cap ObjAddrs(p[j], h) = {}
                   /\ ListAddrs(p[i], h) \cap ListAddrs(p[j], h) = {}
    /\ \A i \in 1..Len(p) :
          \A a \in ObjAddrs(p[i], h), b \in ObjAddrs(p[i], h) :
              a # b => h.objs[a].trail # h.objs[b].trail

\* C11: every call of the level factory returns a fresh bodies list, fresh
\* bodies with fresh trails, a fresh ship and a fresh target.  A call
\* returns the initial configuration of its level and changes no earlier
\* result; spawning into or updating the objects of one call changes no
\* other call's result.
C11_FreshLevelObjects ==
    [][ /\ Fresh(pre', hist')
        /\ Len(pre') = Len(pre) + 1 =>
              /\ View(pre'[Len(pre')], hist') = InitialView(ret'.arg)
              /\ \A j \in 1..Len(pre) : View(pre[j], hist') = View(pre[j], hist)
        /\ Len(pre') = Len(pre) =>
              \A j \in 1..Len(pre) :
                  j # ret'.arg => View(pre[j], hist') = View(pre[j], hist)
      ]_vars

\* level one was called, a body was spawned into its list and its objects
\* moved, and a later call of level one returned the initial configuration
C11_Witness ==
    /\ ret.op = "reset_level"
    /\ \E i \in 1..Len(pre), j \in 1..Len(pre) :
          /\ i < j
          /\ j = Len(pre)
          /\ pre[i].index = 0
          /\ pre[j].index = 0
          /\ Len(hist.lists[pre[i].bodies]) = 4
          /\ hist.lists[hist.objs[pre[i].ship].trail] # << >>
          /\ View(pre[i], hist) # InitialView(0)
          /\ View(pre[j], hist) = InitialView(0)

----------------------------------------------------------------------------
(* Claims about rotate, checked under SpecShip *)

\* the angle units in 2 pi radians
FullTurn == 4

\* C12: rotate(direction, dt) changes only the facing angle, by
\* 2 pi * direction * dt: nothing for direction 0 or dt 0, exactly
\* 2 pi * t for unit direction and duration t; position, velocity, fuel
\* and every other field keep their values.
C12_RotateOnlyTurns ==
    Called("rotate") =>
        /\ (ship.angle - Before.angle) * TicksPerSecond = FullTurn * ret.arg * dt
        /\ (ret.arg = 0 \/ dt = 0) => ship.angle = Before.angle
        /\ (ret.arg = 1) => (ship.angle - Before.angle) * TicksPerSecond = FullTurn * dt
        /\ [ship EXCEPT !.angle = Before.angle] = Before
        /\ ship.x = Before.x /\ ship.y = Before.y
        /\ ship.vx = Before.vx /\ ship.vy = Before.vy
        /\ ship.fuel = Before.fuel

\* a moving ship with fuel was rotated counter-clockwise for one second
\* and made one full turn
C12_Witness ==
    /\ Called("rotate")
    /\ ret.arg = 1
    /\ dt = TicksPerSecond
    /\ ship.angle = Before.angle + FullTurn
    /\ Before.fuel > 0
    /\ (Before.vx # 0 \/ Before.vy # 0)

----------------------------------------------------------------------------
(* Claims about the end-of-level flags, checked under Spec *)

\* the step loaded a level: the ship is a new object
LevelLoaded == ship'.oid # ship.oid

\* the ship overlaps some body of the list
OverlapsHazard(sh, bs) == \E k \in 1..Len(bs) : check_collision(sh, bs[k])

\* C13: game_over and success are never both true.  A frame in which the
\* ship overlaps a hazard body and the target sets game_over only; while
\* one flag is set the other stays clear, and a set flag is cleared only
\* by loading a level (R or N), which clears both.
C13_FlagsExclusive ==
    /\ [](~(game_over /\ success))
    /\ [][/\ game_over => ~success'
          /\ success => ~game_over'
          /\ (PhysicsRan /\ OverlapsHazard(ship', bodies')
                /\ check_collision(ship', target')) =>
                (game_over' /\ ~success')
          /\ ((game_over /\ ~game_over') \/ (success /\ ~success')) =>
                (LevelLoaded /\ ~game_over' /\ ~success')]_vars

\* a frame ended with the ship inside the target, slower than 50 px/s and
\* touching a hazard body: the game is over and the level is not completed
C13_Witness ==
    /\ pc = "tick" /\ frame >= 1
    /\ game_over /\ ~success
    /\ check_collision(ship, target)
    /\ SlowerThan50(ship)
    /\ OverlapsHazard(ship, bodies)

\* the simulation state: positions, velocities, accelerations and trails of
\* every body and of the ship, the ship's angle and fuel, the bodies list,
\* the target and the elapsed timer
Simulation(bs, sh, tg, el) ==
    <<bs, <<sh.x, sh.y, sh.vx, sh.vy, sh.ax, sh.ay, sh.trail, sh.angle, sh.fuel>>,
      tg, el>>

\* C14: while game_over or success is true no step of the frame loop
\* changes the simulation state or the flags, except a step that loads a
\* level: R reloads the current level, and N, only when success is true,
\* advances level_index by one modulo the number of levels.  Either load
\* starts from the level's initial configuration with the timer at zero.
\* N pressed without success changes nothing.
C14_FrozenAfterEnd ==
    [][/\ ((game_over \/ success) /\ ~LevelLoaded) =>
             /\ Simulation(bodies', ship', target', elapsed')
                  = Simulation(bodies, ship, target, elapsed)
             /\ game_over' = game_over
             /\ success' = success
             /\ level_index' = level_index
             /\ score_total' = score_total
       /\ LevelLoaded =>
             /\ level_index' \in {level_index, (level_index + 1) % NumLevels}
             /\ LET L == reset_level(level_index', next_oid)
                IN Simulation(bodies', ship', target', elapsed')
                     = Simulation(L.bodies, L.ship, L.target, 0)
             /\ ~game_over' /\ ~success'
       /\ level_index' # level_index =>
             /\ success
             /\ LevelLoaded
             /\ level_index' = (level_index + 1) % NumLevels
       /\ (EvKeyDownN /\ ~success) =>
             UNCHANGED <<bodies, ship, target, next_oid, running, game_over,
                         success, elapsed, level_index, score_total, held>>]_vars

\* the level was completed in the first frame; a second frame with an
\* event has passed since, and the timer and the ship's trail still show
\* one frame
C14_Witness ==
    /\ success
    /\ pc = "tick" /\ frame = 2 /\ nev >= 1
    /\ Len(ship.trail) = 1
    /\ elapsed \in DtChoices

====
